---- MODULE Spec2Model ----
(***************************************************************************)
(* The Three Whys assessment endpoint (api/evaluate.js, latest variant):   *)
(* the deterministic fallback scorer fallbackEvaluate(profile, answers),   *)
(* the HTTP handler around it and the outbound call callOpenAI.            *)
(*                                                                         *)
(* Strings the code inspects character by character (answers, roles, the   *)
(* unknown phrases, the role patterns) are sequences of one-character      *)
(* strings; the typographic apostrophe U+2019 is the single character      *)
(* written "u2019".  Texts the code only copies into the report are TLA+   *)
(* strings, with the non-ASCII punctuation of the source written in ASCII  *)
(* (U+2019 as ', U+2011 and U+2013 as -); distinct source texts stay       *)
(* distinct.                                                               *)
(***************************************************************************)
EXTENDS Integers, Sequences, FiniteSets, TLC

\* profile, answers, pc, result: one invocation of fallbackEvaluate
\* env: process.env;  reqs: the requests the handler is serving
VARIABLES profile, answers, pc, result, env, reqs

vars == <<profile, answers, pc, result, env, reqs>>

(***************************************************************************)
(* JavaScript strings                                                      *)
(***************************************************************************)
Whitespace == {" ", "\t", "\n"}

UpperCase ==
  <<"A","B","C","D","E","F","G","H","I","J","K","L","M","N","O","P","Q","R","S","T","U","V","W","X","Y","Z">>

LowerCase ==
  <<"a","b","c","d","e","f","g","h","i","j","k","l","m","n","o","p","q","r","s","t","u","v","w","x","y","z">>

DigitChars ==
  <<"0","1","2","3","4","5","6","7","8","9">>

SeqRange(s) == {s[i] : i \in 1..Len(s)}

SetMin(S) == CHOOSE x \in S : \A y \in S : x <= y

SetMax(S) == CHOOSE x \in S : \A y \in S : x >= y

\* String.prototype.toLowerCase
LowerOf == [c \in SeqRange(UpperCase) |-> LowerCase[CHOOSE k \in 1..26 : UpperCase[k] = c]]

toLowerCaseChar(c) == IF c \in DOMAIN LowerOf THEN LowerOf[c] ELSE c

toLowerCase(s) == [i \in 1..Len(s) |-> toLowerCaseChar(s[i])]

\* String.prototype.trim
trim(s) ==
  IF \A i \in 1..Len(s) : s[i] \in Whitespace THEN <<>>
  ELSE LET first == CHOOSE i \in 1..Len(s) :
                      s[i] \notin Whitespace /\ \A j \in 1..(i - 1) : s[j] \in Whitespace
           last == CHOOSE i \in 1..Len(s) :
                     s[i] \notin Whitespace /\ \A j \in (i + 1)..Len(s) : s[j] \in Whitespace
       IN SubSeq(s, first, last)

\* s.split(/\s+/).length: one more piece than there are maximal runs of whitespace
splitLength(s) ==
  1 + Cardinality({i \in 1..Len(s) : s[i] \in Whitespace /\ (i = 1 \/ s[i-1] \notin Whitespace)})

\* s.replace(/[^a-z0-9\s]/g, '')
KeptChars == SeqRange(LowerCase) \cup SeqRange(DigitChars) \cup Whitespace

IsKept(c) == c \in KeptChars

stripOther(s) == SelectSeq(s, IsKept)

\* String.prototype.includes
stringIncludes(s, p) ==
  \E i \in 0..(Len(s) - Len(p)) : \A j \in 1..Len(p) : s[i + j] = p[j]

\* Array.prototype.includes
arrayIncludes(arr, x) == \E i \in 1..Len(arr) : arr[i] = x

(***************************************************************************)
(* JavaScript values of the request: a string, undefined (absent key), or  *)
(* a number, which JSON.parse yields as readily as a string                *)
(***************************************************************************)
Undefined == [t |-> "undefined", s |-> <<>>]

Str(s) == [t |-> "string", s |-> s]

\* the number written with the digits d
Num(d) == [t |-> "number", s |-> d]

Truthy(v) == \/ v.t = "string" /\ v.s # <<>>
             \/ v.t = "number" /\ v.s # <<"0">>

\* v || '', as a value
orEmptyValue(v) == IF Truthy(v) THEN v ELSE Str(<<>>)

\* v || '', the characters of the string it is
orEmpty(v) == IF Truthy(v) THEN v.s ELSE <<>>

\* (v || '').trim() and (v || '').toLowerCase() exist on a string only: on any
\* other value the call raises a TypeError
hasStringMethods(v) == orEmptyValue(v).t = "string"

(***************************************************************************)
(* Static tables of fallbackEvaluate                                       *)
(***************************************************************************)
categories == <<
  [name |-> "Why change", key |-> "q1"],
  [name |-> "Why now", key |-> "q2"],
  [name |-> "Why your company", key |-> "q3"],
  [name |-> "Emotion-Logic", key |-> "q4"],
  [name |-> "Buyer-as-hero", key |-> "q5"],
  [name |-> "Clarity", key |-> "q6"] >>

Levels == <<"None", "Emerging", "Basic", "Advanced", "Leading">>

messageTemplates ==
  ("Why change" :> (
      "None" :> [why |-> "Your answer is missing or expresses uncertainty about the buyer or their pain. Without identifying who you serve and what problem they face, there is no foundation for explaining why a change is needed. This dimension remains unaddressed because there is nothing to evaluate.",
           how |-> "Start by researching your ideal buyer and documenting their top pain points. Talk to customers to uncover the emotional drivers behind the problem and quantify its impact. Use those insights to craft a clear statement about why the status quo is unacceptable and change is necessary."]
      @@ "Emerging" :> [why |-> "You hint at a buyer or problem, but the connection is shallow. You don't describe the person, the context or the consequences of the pain. As a result, readers cannot understand why this issue matters or why your buyer should pay attention.",
           how |-> "Clarify who your buyer is and describe their pain in vivid detail. Explain how the problem affects their goals and well-being. Use anecdotes or data to show the scale of the pain and why it cannot be ignored. This will strengthen your case for change."]
      @@ "Basic" :> [why |-> "You identify the buyer and state a clear pain, but the description is surface-level. It lacks depth about the emotional stakes or the quantifiable cost of the problem. Without deeper insight, it fails to inspire action or convey urgency.",
           how |-> "Deepen your explanation by highlighting the emotions driving the buyer's pain and quantifying the cost of inaction. Add customer stories or industry statistics. Show empathy for the buyer's struggle and connect the pain to concrete business outcomes to motivate change."]
      @@ "Advanced" :> [why |-> "You articulate the buyer and their pain with a good balance of storytelling and data. However, the answer could benefit from unique insights or broader industry context that underscores the problem's significance. Without fresh perspectives, it might still feel generic.",
           how |-> "Enrich your narrative with proprietary research or market trends that show why the pain persists. Connect the buyer's frustration to larger industry shifts and emphasise why existing solutions fall short. Position your insight as uniquely suited to address these deeper challenges."]
      @@ "Leading" :> [why |-> "Your description of the buyer's pain is comprehensive and compelling. It seamlessly blends empathy with quantifiable evidence, making a persuasive case for change. You demonstrate deep understanding of the buyer's world and why the current situation cannot stand.",
           how |-> "Continue to refine your insights by gathering ongoing feedback from buyers. Share new stories and data to keep your narrative fresh. Ensure all internal teams align on this message and adapt it as your market evolves, reinforcing your leadership position."]
  ))
  @@ ("Why now" :> (
      "None" :> [why |-> "You did not identify any trigger or sense of urgency. Without specifying what makes this issue critical in the next months, there is no reason to prioritise it. The urgency dimension cannot be scored without context.",
           how |-> "Look for specific triggers that make acting in the next three to six months essential. These could be competitive threats, regulatory deadlines, market trends or budget cycles. Explain how waiting would hurt the buyer and quantify the implications of delay."]
      @@ "Emerging" :> [why |-> "You suggest a reason to act now, but the explanation lacks depth and connection to the buyer's business. The urgency feels generic and does not convey why action within the next months is critical.",
           how |-> "Describe the catalyst that makes this issue urgent and tie it to tangible consequences. Use stories or data showing the impact of recent market changes or upcoming deadlines. Highlight what happens if action is delayed beyond a three-to-six-month window."]
      @@ "Basic" :> [why |-> "You provide a reason to act now, but it lacks evidence or emotional resonance. The trigger is stated but not fully explored or linked to the buyer's pain. As a result, the sense of urgency remains moderate.",
           how |-> "Strengthen the urgency by quantifying the costs of delay and linking the trigger to milestones in the buyer's world-such as budget cycles, strategic reviews or industry shifts. Show how acting now will provide a competitive advantage while procrastination leads to risk."]
      @@ "Advanced" :> [why |-> "You clearly explain the triggers and urgency, combining emotional and logical elements. However, the narrative may still rely on common examples. Adding proprietary data or visionary insights could make the urgency more distinctive.",
           how |-> "Provide specific statistics or case studies showing the benefits of acting promptly and the risks of waiting. Connect the urgency to broader industry shifts and illustrate your foresight in anticipating these changes. Make the argument for immediate action feel inevitable."]
      @@ "Leading" :> [why |-> "Your urgency narrative is compelling and credible. It integrates internal pressures and external market forces, backed by data and emotional resonance. The reader clearly understands the cost of inaction and the need to move quickly.",
           how |-> "Keep your urgency story current by monitoring new market signals and buyer priorities. Update your narrative with fresh insights and align stakeholders around the timeline. Use your foresight to predict emerging trends and maintain urgency at the forefront of discussions."]
  ))
  @@ ("Why your company" :> (
      "None" :> [why |-> "You provide no explanation of why your company is uniquely qualified. Without differentiators or proof, there is nothing to evaluate. This dimension is left unanswered.",
           how |-> "Identify two or three qualities that set your company apart, such as expertise, technology or methodology. Provide a proof point-like a customer testimonial or performance statistic-that validates each differentiator. This will begin to establish credibility."]
      @@ "Emerging" :> [why |-> "You mention a differentiator but fail to show how it connects to the buyer's problem. There is no evidence or context, making the claim feel generic. Your credibility remains unestablished.",
           how |-> "Relate your differentiators to the buyer's pain. Explain why they matter and how they uniquely address the problem. Support your claims with proof, such as case studies, awards or metrics. Focus on the buyer's perspective rather than internal achievements."]
      @@ "Basic" :> [why |-> "You list differentiators and a proof point, but you don't explain why they matter to the buyer. The narrative feels like a checklist rather than a tailored argument. The buyer may still question your relevance.",
           how |-> "Translate each differentiator into a buyer benefit. Describe how your track record with similar customers demonstrates your ability to solve their problem. Highlight your purpose or mission and why it aligns with the buyer's values or ambitions."]
      @@ "Advanced" :> [why |-> "You explain why your company is the right partner with a balance of differentiators and evidence. However, the narrative could include more unique insights or emotional appeal to stand out from competitors.",
           how |-> "Deepen your story by sharing your company's origin, mission and vision, and showing how they resonate with the buyer's ambitions. Introduce thought leadership or innovative practices that prove your commitment to solving the problem in a unique way."]
      @@ "Leading" :> [why |-> "You deliver a compelling and inspiring explanation of why your company is uniquely suited to help. Differentiators are clear, proof is strong and the story resonates emotionally. You establish trust and excitement.",
           how |-> "Maintain your edge by continuously innovating and refining your differentiators. Gather new customer success stories and third-party validation. Stay true to your mission and show how your culture and values empower the buyer's success."]
  ))
  @@ ("Emotion-Logic" :> (
      "None" :> [why |-> "You provided no emotional hook or logical statement. Without a headline, there is no demonstration of your ability to lead with emotion and support with logic. This leaves us unable to assess this dimension.",
           how |-> "Develop a concise headline that evokes an emotion (fear, ambition, relief) while hinting at the change you enable. Follow it with a logical benefit or fact. Keep it short, inspiring and aligned with your buyer's pain."]
      @@ "Emerging" :> [why |-> "Your headline is extremely brief or generic. It lacks emotional resonance and fails to connect to a logical benefit. As a result, it does not capture attention or convey your value proposition.",
           how |-> "Rewrite the headline to focus on the buyer's emotions. Use vivid language that paints a picture of the desired change. Then add a logical element, such as a quantifiable outcome, to show the benefit of acting."]
      @@ "Basic" :> [why |-> "You produce a headline that hints at either emotion or logic, but not both. It shows some understanding of the need to hook and justify, yet the message feels unbalanced or uninspiring.",
           how |-> "Balance your headline by combining an emotional driver with a logical payoff. For example, start with a phrase that stirs fear or ambition and end with a measurable result. Test different versions and refine based on feedback."]
      @@ "Advanced" :> [why |-> "Your headline effectively blends emotion and logic, but it may rely on standard phrasing or lack unique flair. It is good but not yet memorable or distinctive.",
           how |-> "Add a distinctive element such as a surprising statistic, a play on words, or a narrative twist that makes your headline stand out. Ensure it aligns with your brand and resonates with your specific buyer segment."]
      @@ "Leading" :> [why |-> "Your headline is exceptional. It is short, memorable and conveys both the emotional journey and the logical benefit. It instantly communicates the transformation you offer and inspires immediate attention.",
           how |-> "Keep experimenting with creative expressions as your offerings evolve. Use A/B testing to optimise the phrasing for different contexts. Train your team to use this headline consistently and adapt it for various channels and audiences."]
  ))
  @@ ("Buyer-as-hero" :> (
      "None" :> [why |-> "You did not quantify any outcomes or articulate assumptions, leaving no story about the buyer's journey or success. Without numbers or context, the buyer's hero's journey is absent.",
           how |-> "Quantify at least two outcomes your solution delivers-such as time saved, revenue gained, or risks avoided. State the assumptions behind your numbers, like team size or baseline metrics. Frame your buyer as the hero whose success grows through these results."]
      @@ "Emerging" :> [why |-> "You mention outcomes but fail to provide numbers or tie them to the buyer's story. The benefits feel abstract and the buyer does not see themselves in the narrative.",
           how |-> "Provide specific metrics that illustrate the impact of your solution. Explain how these improvements elevate the buyer's status, performance or well-being. Use transparent assumptions and show the before-and-after transformation."]
      @@ "Basic" :> [why |-> "You share some metrics but they are generic or disconnected from the buyer's goals. The story does not clearly position the buyer as the hero achieving these results. It feels like a list of benefits rather than a personal journey.",
           how |-> "Relate each metric to the buyer's objectives and responsibilities. Show how improved time, revenue or risk reduction makes the buyer more effective or respected. Provide context-such as current benchmarks-to demonstrate the significance of the gains."]
      @@ "Advanced" :> [why |-> "You present credible metrics and assumptions and begin to tell a story. However, the narrative could be more inspiring and specific. It may rely on general statistics rather than an evocative hero journey.",
           how |-> "Frame the buyer's journey as overcoming a challenge with your solution. Use case studies or anecdotes to illustrate real customers achieving these outcomes. Make sure the story highlights personal growth and professional impact."]
      @@ "Leading" :> [why |-> "You create a powerful, data-driven story that clearly shows the buyer as the hero. The metrics are meaningful and the narrative inspires confidence and pride. This sets a high bar for storytelling.",
           how |-> "Continue collecting success stories and updating your metrics. Tailor your narrative for different buyer personas so they can envision their own victory. Use multimedia assets like quotes or short videos to deepen the emotional connection."]
  ))
  @@ ("Clarity" :> (
      "None" :> [why |-> "You did not provide a one-sentence value proposition or indicated you do not have one. Without a concise statement of who you serve, the problem and the benefit, we cannot assess clarity. This dimension is unaddressed.",
           how |-> "Compose a clear, single sentence that names your buyer, states the problem you solve and describes the impact you deliver. Eliminate jargon and aim for simplicity. This sentence should be easy to remember and form the core of your messaging."]
      @@ "Emerging" :> [why |-> "Your value proposition is vague or incomplete. It may lack one or more of the essential elements: the buyer, the problem or the impact. It reads like a tagline and does not provide clarity.",
           how |-> "Rewrite your sentence to explicitly mention the audience, the pain and the benefit in plain language. Avoid buzzwords. Provide context or numbers to make the proposition feel real. This will sharpen the clarity and focus of your message."]
      @@ "Basic" :> [why |-> "You provide a value proposition that covers the basics but it is generic and fails to highlight what makes you unique. The wording may be formulaic or reliant on common phrases.",
           how |-> "Refine the sentence to emphasise your unique approach or differentiator. Use active voice and incorporate a hint of emotion. Ensure that it flows naturally and stands out from typical statements. Test it with customers to ensure it resonates."]
      @@ "Advanced" :> [why |-> "You craft a concise and distinctive value proposition that clearly states the buyer, problem and impact. It is strong but could include a bit more specificity or creativity to be truly outstanding.",
           how |-> "Add a unique detail like a metric, proprietary method or compelling adjective that makes your value proposition unforgettable. Align the tone with your brand personality and ensure it resonates across multiple buyer personas."]
      @@ "Leading" :> [why |-> "Your value proposition is succinct, unique and magnetic. It clearly communicates who you serve, what you solve and how you transform the buyer's world. It stands out and stays in the mind.",
           how |-> "Continue to iterate as your offering evolves and your market changes. Use the one-sentence value proposition as a north star for all messaging. Encourage team members to internalise and deliver it consistently."]
  ))

summaryMap ==
  "None" :> "Your assessment indicates there is currently no structured value proposition. Without a clear understanding of your buyer, urgency or differentiation, it will be difficult to craft a message that resonates. Start by articulating each of the Three Whys in detail and gather proof points to build credibility. Identify who your ideal customer is, what pain they experience, why addressing that pain now matters, and why your approach uniquely solves it. Write down your narrative and refine it through customer conversations. Doing so will lay the foundation for a clear, compelling value proposition."
  @@ "Emerging" :> "Your value proposition is still forming. You've identified key elements but the answers lack sufficient context and proof. At this stage it's important to research your buyer's motivations and gather data to support your claims. Spend time interviewing customers, mapping their pain points, and quantifying the costs of inaction. Use those insights to enrich your messaging. Document differentiators and proof points like case studies or benchmarks. This groundwork will help you move from an emerging story to a convincing narrative."
  @@ "Basic" :> "You have a foundational value proposition. You identify the buyer, their pain and why now, but there's room to add more specificity and differentiation. Strengthen your message by connecting emotional hooks to quantitative evidence and tailoring your story to the buyer's needs. Include specific examples of how your solution has addressed similar challenges, data that underscores urgency, and unique capabilities that competitors lack. The more you tie emotion to logic and show measurable outcomes, the more persuasive your message will become."
  @@ "Advanced" :> "Your value proposition is strong and well crafted. You balance emotional hooks with logical proof and clearly articulate why change is needed now and why you are the right partner. To elevate further, incorporate more unique proof points and refine your differentiation based on customer feedback. Continue refining your narrative by integrating fresh customer stories and industry trends, and make sure your messaging remains consistent across all channels and stakeholders. Frequent iteration ensures you maintain relevance and stay ahead of competitors."
  @@ "Leading" :> "Congratulations! Your value proposition is industry leading. You demonstrate mastery of the Three Whys, weave emotion and logic seamlessly, and provide compelling evidence. Continue to innovate and adapt your message as markets evolve to maintain leadership. Regularly benchmark against the best in class and solicit feedback from customers and partners to keep your narrative sharp. Share your insights internally to empower teams and externally to position yourself as a thought leader. This proactive approach will keep your value proposition ahead of the curve."

actionsMap ==
  "None" :> <<
       "Identify your target buyer personas and conduct research to understand their pain points.",
       "Determine key triggers that make addressing the problem urgent and document them.",
       "List differentiators and gather at least one proof point (testimonial, statistic) for each.",
       "Draft an emotional headline paired with a logical benefit and refine it through feedback.",
       "Write a concise one-sentence value proposition stating buyer, pain and outcome." >>
  @@ "Emerging" :> <<
       "Interview customers to validate emotional drivers, pain points and urgency triggers.",
       "Collect data to quantify the costs of inaction and refine your urgency narrative.",
       "Document unique differentiators and gather case studies to support each claim.",
       "Experiment with emotional headlines that blend feeling with facts; test internally.",
       "Build a simple value calculator outlining assumptions and expected benefits." >>
  @@ "Basic" :> <<
       "Deepen research on buyer emotions and triggers using surveys and analytics.",
       "Strengthen differentiators by adding unique proof points or proprietary insights.",
       "Gather more specific metrics to quantify the outcomes you promise.",
       "Align messaging across product, marketing and sales teams for consistency.",
       "Expand your value calculator to model various buyer scenarios." >>
  @@ "Advanced" :> <<
       "Integrate new customer stories and industry trends to keep your narrative fresh.",
       "Add proprietary research or thought leadership to make your urgency story distinctive.",
       "Refine differentiators based on customer feedback and competitive analysis.",
       "Test advanced emotional hooks or storytelling techniques for your headline.",
       "Segment your value calculator by persona to tailor benefits more precisely." >>
  @@ "Leading" :> <<
       "Continue innovating and evolving your message to stay ahead of market shifts.",
       "Regularly benchmark your value proposition against industry leaders for inspiration.",
       "Document and share insights internally and externally to reinforce thought leadership.",
       "Collect new success stories and update your metrics to maintain credibility.",
       "Train and coach your team to deliver your value proposition consistently across channels." >>

unknownPatterns == <<
  <<"i"," ","d","o","n","'","t"," ","k","n","o","w">>,   \* i don't know
  <<"i"," ","d","o","n","u2019","t"," ","k","n","o","w">>,   \* i don't know
  <<"d","o","n","t"," ","k","n","o","w">>,   \* dont know
  <<"d","o"," ","n","o","t"," ","k","n","o","w">>,   \* do not know
  <<"u","n","k","n","o","w","n">>,   \* unknown
  <<"n","o","n","e">>,   \* none
  <<"n","/","a">>,   \* n/a
  <<"n","a">>,   \* na
  <<"i","n","e","x","i","s","t","e","n","t">>,   \* inexistent
  <<"n","o"," ","i","d","e","a">>,   \* no idea
  <<"n","o","t"," ","s","u","r","e">>,   \* not sure
  <<"d","o","n","u2019","t"," ","h","a","v","e">>,   \* don't have
  <<"d","o","n","'","t"," ","h","a","v","e">>,   \* don't have
  <<"d","o","n","t"," ","h","a","v","e">>,   \* dont have
  <<"m","i","s","s","i","n","g">>,   \* missing
  <<"n","o","t"," ","a","v","a","i","l","a","b","l","e">>,   \* not available
  <<"u","n","a","v","a","i","l","a","b","l","e">>,   \* unavailable
  <<"n","o","t"," ","p","r","o","v","i","d","e","d">>,   \* not provided
  <<"n","o","t"," ","e","x","i","s","t","i","n","g">>,   \* not existing
  <<"n","o","t"," ","e","x","i","s","t">>,   \* not exist
  <<"n","o"," ","d","a","t","a">>,   \* no data
  <<"n","o"," ","i","n","f","o","r","m","a","t","i","o","n">>,   \* no information
  <<"n","o","t"," ","a","p","p","l","i","c","a","b","l","e">>,   \* not applicable
  <<"n","o","t"," ","p","r","e","s","e","n","t">>,   \* not present
  <<"n","o","t"," ","d","i","s","p","o","s","a","b","l","e">>   \* not disposable
>>

roleBranches == <<
  [patterns |-> <<<<"c","e","o">>, <<"c","h","i","e","f"," ","e","x","e","c","u","t","i","v","e">>>>,
   text |-> "As a CEO your primary responsibility is to champion a unified value proposition across the organisation. Drive alignment between product, marketing and sales around a shared narrative and ensure resources support timely execution. Link the value story to strategic goals, emphasise organisational urgency and model the behaviour you expect from your teams in every interaction."],
  [patterns |-> <<<<"c","f","o">>, <<"c","h","i","e","f"," ","f","i","n","a","n","c","i","a","l">>>>,
   text |-> "As a CFO focus on aligning investment with your value proposition. Use financial metrics to quantify the cost of inaction and the ROI of acting now. Collaborate with revenue and product leaders to ensure budgets support key initiatives and incorporate value calculators into planning. Demonstrate fiscal discipline while enabling growth."],
  [patterns |-> <<<<"c","r","o">>, <<"c","h","i","e","f"," ","r","e","v","e","n","u","e">>>>,
   text |-> "As a Chief Revenue Officer, you must unify sales, marketing and customer success around a clear value narrative. Tie revenue goals to the Three Whys, drive accountability for consistent messaging and coach teams to balance emotion with logic. Leverage pipeline data to show urgency and guide resource allocation."],
  [patterns |-> <<<<"c","s","o">>, <<"c","h","i","e","f"," ","s","t","r","a","t","e","g","y">>>>,
   text |-> "As a Chief Strategy Officer, ensure your value proposition is embedded into strategic planning. Analyse market trends and competitive moves to anticipate why change and why now. Translate insights into actionable initiatives and communicate them clearly so the entire organisation understands its role in delivering on the strategy."],
  [patterns |-> <<<<"c","p","o">>, <<"c","h","i","e","f"," ","p","r","o","d","u","c","t">>>>,
   text |-> "As a Chief Product Officer you must translate product capabilities into business outcomes. Ensure your roadmap tells a cohesive story that reflects real buyer pains and ambitions. Partner with marketing and sales to validate that new features map to customer problems, using interviews and data to uncover emotional drivers and adjust priorities accordingly."],
  [patterns |-> <<<<"c","i","o">>, <<"c","h","i","e","f"," ","i","n","f","o","r","m","a","t","i","o","n">>>>,
   text |-> "As a CIO your role is to enable the technology and data infrastructure that supports your value proposition. Provide analytics to quantify urgency and outcomes, and ensure systems capture customer feedback to refine messaging. Collaborate with product and revenue leaders to prioritise digital investments that reinforce the narrative."],
  [patterns |-> <<<<"c","t","o">>, <<"c","h","i","e","f"," ","t","e","c","h","n","o","l","o","g","y">>>>,
   text |-> "As a CTO focus on the technical innovation that differentiates your company. Communicate how your architecture and product roadmap uniquely address buyer pain points and enable rapid change. Work with product and marketing teams to translate complex features into business value and inspire confidence in your technical vision."],
  [patterns |-> <<<<"c","h","r","o">>, <<"c","h","i","e","f"," ","h","u","m","a","n">>>>,
   text |-> "As a CHRO align your people strategy with the value proposition. Ensure recruitment, training and performance management emphasise the Three Whys so employees can articulate the message. Foster a culture where teams collaborate across functions to deliver on the promise and recognise behaviours that reinforce the narrative."],
  [patterns |-> <<<<"p","r","o","d","u","c","t">>>>,
   text |-> "As a product leader you should translate product capabilities into business outcomes and ensure your roadmap tells a cohesive story. Partner closely with marketing and sales to validate that new features map to real customer problems. Use interviews and data to uncover emotional drivers and align messaging with market needs, then adapt plans accordingly."],
  [patterns |-> <<<<"m","a","r","k","e","t","i","n","g">>>>,
   text |-> "As a marketing leader focus on articulating a clear narrative that resonates with your buyer's fears and ambitions across all channels. Build campaigns around quantified proof and nurture leads through education on the Three Whys. Align closely with sales and product so messaging and assets reinforce one another and refine them based on market feedback."],
  [patterns |-> <<<<"s","a","l","e","s">>, <<"s","e","l","l","e","r">>>>,
   text |-> "As a sales leader ensure your team understands the Three Whys and can articulate them in conversations of varying lengths. Coach reps to lead with emotion, back it with logic and tailor differentiation based on buyer persona. Regularly gather feedback from prospects and customers to refine your message and improve win rates."],
  [patterns |-> <<<<"d","i","r","e","c","t","o","r">>>>,
   text |-> "As a director you play a critical role in translating high-level strategy into day-to-day execution. Ensure your team understands the value narrative and how their work supports it. Provide feedback from the front lines to refine messaging and coordinate cross-functional initiatives that reinforce the Three Whys."]
>>

genericCoachingText ==
  "As a business leader align with cross-functional teams to build a unified value story. Ensure your objectives support the broader go-to-market strategy and contribute feedback to improve the value proposition. Encourage collaboration and continuous learning to help the organisation advance its message."

headlineExplain ==
  "Craft a short, emotional hook that captures your buyer's attention and summarises the change you enable. Make it memorable and aspirational."

urgencyExplain ==
  "Explain why acting now matters. Link the buyer's pain to near-term risks or opportunities and demonstrate the cost of delay."

differentiatorsExplain ==
  "List two to three unique capabilities and include at least one proof point, such as a case study or metric, to show how you stand out."

valueOutlineExplain ==
  "Break down the quantitative value: baseline metrics, expected lift and payback period. Use real data or reasonable assumptions for credibility."

headlineText ==
  "Elevate your value proposition"

urgencyText ==
  "Clarify the stakes and link your roadmap to near-term outcomes."

differentiatorsText ==
  "Highlight unique capabilities and proof points that set you apart."

valueOutlineText ==
  "Define baseline metrics, lift assumptions and payback timeframe."

\* Craft your value proposition here by clearly stating who you serve, the problem you solve, and the impact you deliver.
finalValuePlaceholder ==
  <<"C","r","a","f","t"," ","y","o","u","r"," ","v","a","l","u","e"," ","p","r","o","p","o","s","i","t","i","o","n"," ","h","e","r","e"," ","b","y"," ","c","l","e","a","r","l","y"," ","s","t","a","t","i","n","g"," ","w","h","o"," ","y","o","u"," ","s","e","r","v","e",","," ","t","h","e"," ","p","r","o","b","l","e","m"," ","y","o","u"," ","s","o","l","v","e",","," ","a","n","d"," ","t","h","e"," ","i","m","p","a","c","t"," ","y","o","u"," ","d","e","l","i","v","e","r",".">>

(***************************************************************************)
(* fallbackEvaluate: the body of categories.forEach                        *)
(***************************************************************************)
wordCountOf(ans) == IF ans # <<>> THEN splitLength(ans) ELSE 0

normalise(ans) == trim(stripOther(toLowerCase(ans)))

\* an unknown phrase anywhere in the normalised answer
isUnknownContains(ans) ==
  LET normalised == normalise(ans)
  IN Len(normalised) = 0
       \/ \E i \in 1..Len(unknownPatterns) : stringIncludes(normalised, unknownPatterns[i])

\* the earlier test: no word, or an unknown phrase anywhere in the lower-cased answer
isUnknownEarlier(ans) ==
  wordCountOf(ans) = 0
    \/ \E i \in 1..Len(unknownPatterns) : stringIncludes(toLowerCase(ans), unknownPatterns[i])

\* the list alone, without the test for an empty normalised answer
isUnknownListedOnly(ans) == arrayIncludes(unknownPatterns, normalise(ans))

isUnknown(ans) ==
  LET normalised == normalise(ans)
  IN Len(normalised) = 0 \/ arrayIncludes(unknownPatterns, normalised)

\* the boundaries given to the lower band
scoreOfInclusive(unknown, wordCount) ==
  IF unknown THEN [score |-> 1, level |-> "None"]
  ELSE IF wordCount <= 15 THEN [score |-> 2, level |-> "Emerging"]
  ELSE IF wordCount <= 40 THEN [score |-> 3, level |-> "Basic"]
  ELSE IF wordCount <= 80 THEN [score |-> 4, level |-> "Advanced"]
  ELSE [score |-> 5, level |-> "Leading"]

\* the scale of an earlier variant: 0 for None
scoreOfZeroNone(unknown, wordCount) ==
  IF unknown THEN [score |-> 0, level |-> "None"]
  ELSE IF wordCount < 15 THEN [score |-> 2, level |-> "Emerging"]
  ELSE IF wordCount < 40 THEN [score |-> 3, level |-> "Basic"]
  ELSE IF wordCount < 80 THEN [score |-> 4, level |-> "Advanced"]
  ELSE [score |-> 5, level |-> "Leading"]

scoreOf(unknown, wordCount) ==
  IF unknown THEN [score |-> 1, level |-> "None"]
  ELSE IF wordCount < 15 THEN [score |-> 2, level |-> "Emerging"]
  ELSE IF wordCount < 40 THEN [score |-> 3, level |-> "Basic"]
  ELSE IF wordCount < 80 THEN [score |-> 4, level |-> "Advanced"]
  ELSE [score |-> 5, level |-> "Leading"]

\* one text per level, whatever the dimension
messageOfShared(name, level) ==
  IF level \in DOMAIN messageTemplates["Why change"]
  THEN messageTemplates["Why change"][level]
  ELSE [why |-> "", how |-> ""]

messageOf(name, level) ==
  IF name \in DOMAIN messageTemplates /\ level \in DOMAIN messageTemplates[name]
  THEN messageTemplates[name][level]
  ELSE [why |-> "", how |-> ""]

\* every category reading the first key
answerOfFirstKey(cat, ans) == trim(orEmpty(ans[categories[1].key]))

answerOf(cat, ans) == trim(orEmpty(ans[cat.key]))

dimensionOf(cat, ans) ==
  LET a == answerOf(cat, ans)
      sl == scoreOf(isUnknown(a), wordCountOf(a))
      msg == messageOf(cat.name, sl.level)
  IN [name |-> cat.name, score |-> sl.score, level |-> sl.level,
      why |-> msg.why, how |-> msg.how]

dimsOf(ans) == [i \in 1..Len(categories) |-> dimensionOf(categories[i], ans)]

RECURSIVE sumScores(_, _)
sumScores(dims, n) == IF n = 0 THEN 0 ELSE sumScores(dims, n - 1) + dims[n].score

(***************************************************************************)
(* Average and band.  Numbers with one decimal are held in tenths.         *)
(***************************************************************************)
\* (num / den).toFixed(1): the tenth nearest to num/den, as a string
\* the tenths cut off instead of rounded
toFixed1Truncated(num, den) ==
  LET tenths == (10 * num) \div den
  IN <<DigitChars[(tenths \div 10) + 1], ".", DigitChars[(tenths % 10) + 1]>>

\* rounded to the nearest whole number
toFixed1Whole(num, den) ==
  LET whole == (2 * num + den) \div (2 * den)
  IN <<DigitChars[whole + 1], ".", "0">>

toFixed1(num, den) ==
  LET tenths == (20 * num + den) \div (2 * den)
  IN <<DigitChars[(tenths \div 10) + 1], ".", DigitChars[(tenths % 10) + 1]>>

digitValue(c) == (CHOOSE k \in 1..10 : DigitChars[k] = c) - 1

\* parseFloat of a "d.d" string, in tenths
parseFloat(str) == 10 * digitValue(str[1]) + digitValue(str[3])

\* the labels of two neighbouring bands exchanged
bandOfSwapped(avgNumeric) ==
  IF avgNumeric < 20 THEN "None"
  ELSE IF avgNumeric < 30 THEN "Emerging"
  ELSE IF avgNumeric < 40 THEN "Advanced"
  ELSE IF avgNumeric < 50 THEN "Basic"
  ELSE "Leading"

\* the breakpoints of an earlier variant: 1.5 / 2.5 / 3.5 / 4.5
bandOfHalves(avgNumeric) ==
  IF avgNumeric < 15 THEN "None"
  ELSE IF avgNumeric < 25 THEN "Emerging"
  ELSE IF avgNumeric < 35 THEN "Basic"
  ELSE IF avgNumeric < 45 THEN "Advanced"
  ELSE "Leading"

\* the breakpoints of the earliest variant: 1 / 2.5 / 3.5 / 4.5
bandOfEarliest(avgNumeric) ==
  IF avgNumeric < 10 THEN "None"
  ELSE IF avgNumeric < 25 THEN "Emerging"
  ELSE IF avgNumeric < 35 THEN "Basic"
  ELSE IF avgNumeric < 45 THEN "Advanced"
  ELSE "Leading"

bandOf(avgNumeric) ==
  IF avgNumeric < 20 THEN "None"
  ELSE IF avgNumeric < 30 THEN "Emerging"
  ELSE IF avgNumeric < 40 THEN "Basic"
  ELSE IF avgNumeric < 50 THEN "Advanced"
  ELSE "Leading"

(***************************************************************************)
(* Role coaching: the if / else-if cascade over roleLower                  *)
(***************************************************************************)
branchMatches(roleLower, k) ==
  \E j \in 1..Len(roleBranches[k].patterns) : stringIncludes(roleLower, roleBranches[k].patterns[j])

\* the last matching branch instead of the first
coachingTextOfLastMatch(roleLower) ==
  LET hits == {k \in 1..Len(roleBranches) : branchMatches(roleLower, k)}
  IN IF hits = {} THEN genericCoachingText ELSE roleBranches[SetMax(hits)].text

coachingTextOf(roleLower) ==
  LET hits == {k \in 1..Len(roleBranches) : branchMatches(roleLower, k)}
  IN IF hits = {} THEN genericCoachingText ELSE roleBranches[SetMin(hits)].text

\* the default list for every band
nextActionsOfDefault(band) == actionsMap["Basic"]

nextActionsOf(band) ==
  IF band \in DOMAIN actionsMap THEN actionsMap[band] ELSE actionsMap["Basic"]

\* a variant that keeps every string q6, the empty one too
finalValueOfPresent(q6) == IF q6.t = "string" THEN trim(q6.s) ELSE finalValuePlaceholder

finalValueOf(q6) == IF Truthy(q6) THEN trim(q6.s) ELSE finalValuePlaceholder

\* the invocation raises a TypeError: in the loop over the categories, at
\* (answers[cat.key] || '').trim(), or at (profile.role || '').toLowerCase()
fallbackThrows(prof, ans) ==
  \/ \E i \in 1..Len(categories) : ~hasStringMethods(ans[categories[i].key])
  \/ ~hasStringMethods(prof.role)

\* the report of an invocation that does not raise
fallbackEvaluate(prof, ans) ==
  LET dims == dimsOf(ans)
      totalScore == sumScores(dims, Len(dims))
      avgScore == toFixed1(totalScore, Len(categories))
      avgNumeric == parseFloat(avgScore)
      band == bandOf(avgNumeric)
  IN [profile |-> prof,
      averageScore |-> avgScore,
      band |-> band,
      executiveSummary |-> summaryMap[band],
      dimensions |-> dims,
      coaching |-> [
        headline |-> headlineText,
        headlineExplain |-> headlineExplain,
        urgency |-> urgencyText,
        urgencyExplain |-> urgencyExplain,
        differentiators |-> differentiatorsText,
        differentiatorsExplain |-> differentiatorsExplain,
        valueOutline |-> valueOutlineText,
        valueOutlineExplain |-> valueOutlineExplain,
        coachingText |-> coachingTextOf(toLowerCase(orEmpty(prof.role))),
        salesSparxText |-> "",
        finalValue |-> finalValueOf(ans["q6"]),
        nextActions |-> nextActionsOf(band)]]

(***************************************************************************)
(* Requests: the (profile, answers) pairs fallbackEvaluate is called with  *)
(***************************************************************************)
MaxWords == 81

Keys == {"q1", "q2", "q3", "q4", "q5", "q6"}

KeyIndex(k) == CHOOSE i \in 1..Len(categories) : categories[i].key = k

\* n copies of word, joined by sep
repeatWord(word, sep, n) ==
  LET unit == Len(word) + Len(sep)
  IN [i \in 1..(n * unit - Len(sep)) |->
        IF (i - 1) % unit < Len(word) THEN word[((i - 1) % unit) + 1]
        ELSE sep[((i - 1) % unit) - Len(word) + 1]]

\* "u65e5" and "u672c" are the single characters U+65E5 and U+672C
FillerWords ==
  {<<"a">>, <<"B","u","y","e","r","s">>, <<"n","o","n","e">>, <<"?">>, <<"u65e5", "u672c">>}

Separators == {<<" ">>, <<" ", " ">>, <<"\n">>}

BoundaryCounts == <<14, 15, 39, 40, 79, 80>>

\* answers of 1..MaxWords words, and other words and separators around the boundaries
LengthAnswers ==
  {Str(repeatWord(<<"a">>, <<" ">>, n)) : n \in 1..MaxWords}
    \cup {Str(repeatWord(w, sp, n)) :
            w \in FillerWords, sp \in Separators, n \in {1, 2, MaxWords} \cup SeqRange(BoundaryCounts)}

PaddedAnswers ==
  {Str(<<" ", "\t">> \o repeatWord(<<"a">>, <<" ">>, n) \o <<"\n">>) : n \in SeqRange(BoundaryCounts)}

UnknownPhraseTexts == {
  <<"I"," ","d","o","n","'","t"," ","k","n","o","w">>,
  <<"i"," ","d","o","n","'","t"," ","k","n","o","w">>,
  <<"I"," ","D","O","N","'","T"," ","K","N","O","W">>,
  <<"I"," ","d","o","n","u2019","t"," ","k","n","o","w">>,
  <<"I"," ","d","o","n","t"," ","k","n","o","w">>,
  <<"D","o","n","t"," ","k","n","o","w">>,
  <<"N","/","A">>,
  <<"n","/","a">>,
  <<"N","A">>,
  <<"u","n","k","n","o","w","n">>,
  <<"U","n","k","n","o","w","n">>,
  <<"U","N","K","N","O","W","N">>,
  <<"n","o","n","e">>,
  <<"N","o","n","e">>,
  <<"N","O","N","E">>,
  <<" ","n","o","n","e"," ">>,
  <<"N","o","n","e",".">>,
  <<"n","o","t"," ","s","u","r","e">>,
  <<"N","o"," ","i","d","e","a","!">>,
  <<"n","o"," ","d","a","t","a">>,
  <<"M","i","s","s","i","n","g">>,
  <<"N","o","t"," ","a","p","p","l","i","c","a","b","l","e">> }

SentenceTexts == {
  <<"I"," ","r","e","a","l","l","y"," ","d","o","n","'","t"," ","h","a","v","e"," ","t","h","i","s"," ","i","n","f","o","r","m","a","t","i","o","n">>,
  <<"n","o","n","e"," ","o","f"," ","t","h","e"," ","a","b","o","v","e"," ","a","p","p","l","y"," ","t","o"," ","u","s">>,
  <<"n","o","n","e","t","h","e","l","e","s","s"," ","w","e"," ","g","r","o","w">>,
  <<"n","/","a"," ","f","o","r"," ","n","o","w">>,
  <<"u","n","k","n","o","w","n"," ","u","n","k","n","o","w","n","s">>,
  <<"w","e"," ","h","a","v","e"," ","n","o"," ","d","a","t","a"," ","y","e","t">>,
  <<"I"," ","d","o","n","'","t"," ","k","n","o","w"," ","y","e","t">>,
  <<"n","o">>,
  <<"B","u","y","e","r","s"," ","l","o","s","e"," ","r","e","v","e","n","u","e">>,
  <<"C","F","O","s"," ","n","e","e","d"," ","3"," ","r","e","p","o","r","t","s">> }

RoleTexts == {
  <<"C","h","i","e","f"," ","P","r","o","d","u","c","t"," ","O","f","f","i","c","e","r">>,
  <<"C","P","O">>,
  <<"P","r","o","d","u","c","t"," ","M","a","n","a","g","e","r">>,
  <<"V","P"," ","P","r","o","d","u","c","t">>,
  <<"C","E","O">>,
  <<"C","h","i","e","f"," ","E","x","e","c","u","t","i","v","e"," ","O","f","f","i","c","e","r">>,
  <<"c","f","o">>,
  <<"C","h","i","e","f"," ","R","e","v","e","n","u","e"," ","O","f","f","i","c","e","r">>,
  <<"C","h","i","e","f"," ","S","t","r","a","t","e","g","y"," ","O","f","f","i","c","e","r">>,
  <<"C","I","O">>,
  <<"C","T","O">>,
  <<"C","h","i","e","f"," ","T","e","c","h","n","o","l","o","g","y"," ","O","f","f","i","c","e","r">>,
  <<"C","H","R","O">>,
  <<"H","e","a","d"," ","o","f"," ","M","a","r","k","e","t","i","n","g">>,
  <<"S","a","l","e","s"," ","L","e","a","d">>,
  <<"S","e","l","l","e","r">>,
  <<"D","i","r","e","c","t","o","r">>,
  <<"D","i","r","e","c","t","o","r"," ","o","f"," ","S","a","l","e","s">>,
  <<"F","o","u","n","d","e","r">>,
  <<"A","n","a","l","y","s","t">>,
  <<" ">>,
  <<"M","a","r","k","e","t","i","n","g"," ","a","n","d"," ","P","r","o","d","u","c","t">> }

\* an unknown phrase or a sentence followed by n more words
TailedAnswers ==
  {Str(p \o <<" ">> \o repeatWord(<<"a", "b">>, <<" ">>, n)) :
     p \in UnknownPhraseTexts \cup SentenceTexts, n \in {1, MaxWords - 1}}

\* each entry of the unknown-phrase list as it is written there
PatternAnswers == {Str(unknownPatterns[k]) : k \in 1..Len(unknownPatterns)}

AnswerPool ==
  {Undefined, Str(<<>>), Str(<<" ", " ">>), Num(<<"5">>), Num(<<"0">>)} \cup PatternAnswers
    \cup {Str(p) : p \in UnknownPhraseTexts \cup SentenceTexts}
    \cup LengthAnswers \cup PaddedAnswers \cup TailedAnswers

\* one answer of each level
LevelPool ==
  {Undefined} \cup {Str(repeatWord(<<"a">>, <<" ">>, n)) : n \in {1, 15, 40, 80}}

RolePool == {Undefined, Str(<<>>), Num(<<"7">>)} \cup {Str(r) : r \in RoleTexts}

NoRole == [role |-> Undefined]

NoResult == [band |-> ""]

(***************************************************************************)
(* The HTTP handler: the request body, process.env, the service's reply    *)
(***************************************************************************)
\* a member of the parsed body: absent, null, or an object imaged by o
Absent(o) == [t |-> "undefined", o |-> o]

Null(o) == [t |-> "null", o |-> o]

Obj(o) == [t |-> "object", o |-> o]

\* !x is false: of the members modelled, for an object only
truthyMember(x) == x.t = "object"

NoAnswers == [k \in Keys |-> Undefined]

\* the body's text: a JSON object with the three members, or a text of another
\* kind: "empty" (no byte), "malformed" (no JSON), "null", "number"
ObjectDoc(p, a, t) == [kind |-> "object", profile |-> p, answers |-> a, attachments |-> t]

OtherDoc(kind) ==
  [kind |-> kind, profile |-> Absent(NoRole), answers |-> Absent(NoAnswers),
   attachments |-> Absent(NoAnswers)]

\* (parseThrowsOnNullOnly: a variant that reads a text that is no JSON as {})
\* JSON.parse(body || '{}') followed by the destructuring: a SyntaxError on a
\* text that is no JSON, a TypeError on null; members of {} and of a number are
\* undefined
parseThrowsOnNullOnly(doc) == doc.kind = "null"

parseThrows(doc) == doc.kind \in {"malformed", "null"}

\* attachments[key].content.slice(0, 200), reached for a truthy content
promptThrows(doc) ==
  /\ truthyMember(doc.attachments)
  /\ \E k \in Keys : Truthy(doc.attachments.o[k]) /\ doc.attachments.o[k].t # "string"

\* the reply of the service to the outbound request: the 'error' event, or
\* the 'end' event of a response with a status and a body.  The body is no
\* JSON ("text"), the JSON null, or a JSON object whose
\* choices[0].message.content is absent, a string that is no JSON
\* ("text"), or a string that is the JSON of a report ("report")
ServiceReply(event, status, body, content) ==
  [event |-> event, status |-> status, body |-> body, content |-> content]

ServiceReplies == {
  ServiceReply("error", 0, "none", "absent"),
  ServiceReply("end", 502, "text", "absent"),
  ServiceReply("end", 200, "null", "absent"),
  ServiceReply("end", 401, "object", "absent"),
  ServiceReply("end", 429, "object", "absent"),
  ServiceReply("end", 200, "object", "absent"),
  ServiceReply("end", 200, "object", "text"),
  ServiceReply("end", 200, "object", "report") }

NoReply == ServiceReply("none", 0, "none", "absent")

\* the promise of callOpenAI: rejected on 'error' and on a body JSON.parse
\* refuses, resolved with the parsed body otherwise, whatever the status
callOpenAI(reply) ==
  IF reply.event = "error" \/ reply.body = "text"
    THEN [settled |-> "rejected", body |-> "none", content |-> "absent"]
    ELSE [settled |-> "resolved", body |-> reply.body, content |-> reply.content]

\* the report the model wrote
ModelReport == [model |-> "report"]

\* the body res.end sends: JSON.stringify(v) is a JSON text, and undefined for
\* v undefined, which sends no byte
JsonBody(v) == [t |-> "json", v |-> v]

NoBody == [t |-> "none", v |-> [none |-> TRUE]]

ErrorBody(msg) == JsonBody([error |-> msg])

\* the response: statusCode, the headers set, the body sent
Response(status, headers, body) == [statusCode |-> status, headers |-> headers, body |-> body]

NoResponse == Response(0, {}, NoBody)

\* a request as it arrives: its method, the text of its body, sent in nchunks chunks
Request(method, doc, nchunks) ==
  [method |-> method, doc |-> doc, nchunks |-> nchunks, got |-> 0, pc |-> "arrived",
   response |-> NoResponse, ended |-> 0, scorer |-> 0, calls |-> 0, reply |-> NoReply]

\* process.env without the credential
NoEnv == [OPENAI_API_KEY |-> Undefined]

\* the request: any answer of the pool under one key; the six boundary lengths, in
\* each rotation over the keys; any role of the pool
Init ==
  /\ pc = "called"
  /\ result = NoResult
  /\ env = NoEnv
  /\ reqs = <<>>
  /\ \/ /\ profile = NoRole
        /\ \E key \in Keys, a \in AnswerPool :
             answers = [k \in Keys |-> IF k = key THEN a ELSE Undefined]
     \/ /\ profile = NoRole
        /\ \E r \in 0..5 :
             answers = [k \in Keys |->
                          Str(repeatWord(<<"a">>, <<" ">>, BoundaryCounts[((KeyIndex(k) + r) % 6) + 1]))]
     \/ /\ \E r \in RolePool : profile = [role |-> r]
        /\ \E a \in LevelPool : answers = [k \in Keys |-> a]

\* result = fallbackEvaluate(profile, answers), or the TypeError it raises
FallbackEvaluate ==
  /\ pc = "called"
  /\ IF fallbackThrows(profile, answers)
       THEN pc' = "threw" /\ result' = NoResult
       ELSE pc' = "returned" /\ result' = fallbackEvaluate(profile, answers)
  /\ UNCHANGED <<profile, answers, env, reqs>>

Next == FallbackEvaluate

Spec == Init /\ [][Next]_vars

\* the request: every combination of the levels over the six keys
InitLevels ==
  /\ pc = "called"
  /\ result = NoResult
  /\ env = NoEnv
  /\ reqs = <<>>
  /\ profile = NoRole
  /\ answers \in [Keys -> LevelPool]

SpecLevels == InitLevels /\ [][Next]_vars

(***************************************************************************)
(* The handler module.exports = async (req, res)                           *)
(***************************************************************************)
AllowHeader == {<<"Allow", "POST">>}

JsonHeader == {<<"Content-Type", "application/json">>}

\* res.statusCode = status; res.setHeader(...) for each header; res.end(body)
respond(q, status, headers, body) ==
  [q EXCEPT !.response = Response(status, headers, body), !.ended = @ + 1, !.pc = "done"]

\* the outer catch
respondFailed(q) == respond(q, 500, {}, ErrorBody("Failed to process request"))

\* const result = fallbackEvaluate(profile, answers), then the 200 response
\* with the report; both calls stand inside the outer try, so a TypeError of
\* the scorer ends in the outer catch
respondFallback(q) ==
  LET ran == [q EXCEPT !.scorer = @ + 1]
  IN  IF fallbackThrows(q.doc.profile.o, q.doc.answers.o)
        THEN respondFailed(ran)
        ELSE respond(ran, 200, JsonHeader,
                     JsonBody(fallbackEvaluate(q.doc.profile.o, q.doc.answers.o)))

\* a variant without the return statements that follow the 400 response and the
\* no-credential response: the listener runs on after res.end
onEndNoReturn(q, apiKey) ==
  IF parseThrows(q.doc)
    THEN respondFailed(q)
  ELSE IF ~truthyMember(q.doc.profile) \/ ~truthyMember(q.doc.answers)
    THEN respondFallback(respond(q, 400, {}, ErrorBody("Invalid request payload.")))
  ELSE IF ~Truthy(apiKey)
    THEN [respondFallback(q) EXCEPT !.calls = @ + 1, !.pc = "calling"]
  ELSE IF promptThrows(q.doc)
    THEN respondFailed(q)
  ELSE [q EXCEPT !.calls = @ + 1, !.pc = "calling"]

\* a variant that starts the outbound call as soon as the body is parsed
onEndCallFirst(q, apiKey) ==
  IF parseThrows(q.doc)
    THEN respondFailed(q)
  ELSE [q EXCEPT !.calls = @ + 1, !.pc = "calling"]

\* the 'end' listener up to its first await
onEnd(q, apiKey) ==
  IF parseThrows(q.doc)
    THEN respondFailed(q)
  ELSE IF ~truthyMember(q.doc.profile) \/ ~truthyMember(q.doc.answers)
    THEN respond(q, 400, {}, ErrorBody("Invalid request payload."))
  ELSE IF ~Truthy(apiKey)
    THEN respondFallback(q)
  ELSE IF promptThrows(q.doc)
    THEN respondFailed(q)
  ELSE [q EXCEPT !.calls = @ + 1, !.pc = "calling"]

\* the 'end' listener after await callOpenAI(apiKey, payload): a rejected
\* promise, apiResponse.choices on null and JSON.parse(content) on a text that
\* is no JSON raise into the inner catch; content undefined is passed on, and
\* JSON.stringify(undefined) is undefined
onSettled(q, promise) ==
  IF promise.settled = "rejected" \/ promise.body = "null"
    THEN respondFallback(q)
  ELSE IF promise.content = "text"
    THEN respondFallback(q)
  ELSE IF promise.content = "report"
    THEN respond(q, 200, JsonHeader, JsonBody(ModelReport))
  ELSE respond(q, 200, JsonHeader, NoBody)

\* a variant without the method test: the listeners registered for any method
HandleAnyMethod(r) ==
  /\ reqs[r].pc = "arrived"
  /\ reqs' = [reqs EXCEPT ![r].pc = "reading"]
  /\ UNCHANGED <<profile, answers, pc, result, env>>

\* the handler is called: 405 for another method than POST, the listeners
\* registered for POST
Handle(r) ==
  /\ reqs[r].pc = "arrived"
  /\ reqs' = [reqs EXCEPT ![r] =
                IF @.method # "POST"
                  THEN respond(@, 405, AllowHeader, ErrorBody("Method not allowed"))
                  ELSE [@ EXCEPT !.pc = "reading"]]
  /\ UNCHANGED <<profile, answers, pc, result, env>>

\* a variant with one body buffer for all requests: a chunk is appended for
\* every request that is reading
OnDataShared(r) ==
  /\ reqs[r].pc = "reading"
  /\ reqs[r].got < reqs[r].nchunks
  /\ reqs' = [i \in DOMAIN reqs |->
                IF reqs[i].pc = "reading" THEN [reqs[i] EXCEPT !.got = @ + 1] ELSE reqs[i]]
  /\ UNCHANGED <<profile, answers, pc, result, env>>

\* req.on('data'): body += chunk
OnData(r) ==
  /\ reqs[r].pc = "reading"
  /\ reqs[r].got < reqs[r].nchunks
  /\ reqs' = [reqs EXCEPT ![r].got = @ + 1]
  /\ UNCHANGED <<profile, answers, pc, result, env>>

\* req.on('end'), after the last chunk
OnEnd(r) ==
  /\ reqs[r].pc = "reading"
  /\ reqs[r].got = reqs[r].nchunks
  /\ reqs' = [reqs EXCEPT ![r] = onEnd(@, env.OPENAI_API_KEY)]
  /\ UNCHANGED <<profile, answers, pc, result, env>>

\* the promise of callOpenAI settles with the service's reply
OnReply(r) ==
  /\ reqs[r].pc = "calling"
  /\ \E reply \in ServiceReplies :
       reqs' = [reqs EXCEPT ![r] = onSettled([@ EXCEPT !.reply = reply], callOpenAI(reply))]
  /\ UNCHANGED <<profile, answers, pc, result, env>>

\* the service takes the request and stays silent: neither 'end' nor 'error'
\* will be emitted, and callOpenAI has no other way to settle its promise (no
\* timeout option, no setTimeout, no abort), so the promise stays pending
OnSilence(r) ==
  /\ reqs[r].pc = "calling"
  /\ reqs' = [reqs EXCEPT ![r].pc = "pending"]
  /\ UNCHANGED <<profile, answers, pc, result, env>>

NextHandler ==
  \/ \E r \in DOMAIN reqs : Handle(r)
  \/ \E r \in DOMAIN reqs : OnData(r)
  \/ \E r \in DOMAIN reqs : OnEnd(r)
  \/ \E r \in DOMAIN reqs : OnReply(r)
  \/ \E r \in DOMAIN reqs : OnSilence(r)

\* the requests served
MaxChunks == 2

Methods == {"POST", "GET", "PUT"}

EnvPool == {[OPENAI_API_KEY |-> v] : v \in {Undefined, Str(<<>>), Str(<<"s", "k">>)}}

HandlerProfiles ==
  {Absent(NoRole), Null(NoRole), Obj(NoRole),
   Obj([role |-> Str(<<"C", "E", "O">>)]), Obj([role |-> Num(<<"7">>)])}

\* six answers of the boundary lengths; a literal unknown; 80 words without a
\* letter or digit; a number under one key; the number 0 under one key
HandlerAnswerSets == {
  [k \in Keys |-> Str(repeatWord(<<"a">>, <<" ">>, BoundaryCounts[KeyIndex(k)]))],
  [k \in Keys |-> IF k = "q1" THEN Str(<<"n", "o", "n", "e">>) ELSE Str(<<"a", " ", "b">>)],
  [k \in Keys |-> IF k = "q3" THEN Str(repeatWord(<<"?">>, <<" ">>, MaxWords - 1)) ELSE Undefined],
  [k \in Keys |-> IF k = "q2" THEN Num(<<"5">>) ELSE Str(<<"a">>)],
  [k \in Keys |-> IF k = "q6" THEN Num(<<"0">>) ELSE Str(<<"a">>)] }

HandlerAnswers == {Absent(NoAnswers), Null(NoAnswers)} \cup {Obj(a) : a \in HandlerAnswerSets}

\* no attachments; a text attached to q1; a number as the content attached to q1
HandlerAttachments ==
  {Absent(NoAnswers),
   Obj([k \in Keys |-> IF k = "q1" THEN Str(<<"p", "d", "f">>) ELSE Undefined]),
   Obj([k \in Keys |-> IF k = "q1" THEN Num(<<"5">>) ELSE Undefined])}

\* six answers, each the empty string or absent
EmptyOrAbsent == [Keys -> {Undefined, Str(<<>>)}]

HandlerDocs ==
  {OtherDoc(kind) : kind \in {"malformed", "null", "number"}}
    \cup {ObjectDoc(p, a, t) : p \in HandlerProfiles, a \in HandlerAnswers, t \in HandlerAttachments}
    \cup {ObjectDoc(Obj(NoRole), Obj(a), Absent(NoAnswers)) : a \in EmptyOrAbsent}

\* one request of any method with any body, under any setting of the credential
InitHandler ==
  /\ profile = NoRole
  /\ answers = NoAnswers
  /\ pc = "idle"
  /\ result = NoResult
  /\ env \in EnvPool
  /\ \E m \in Methods :
       \/ reqs = <<Request(m, OtherDoc("empty"), 0)>>
       \/ \E doc \in HandlerDocs, n \in 1..MaxChunks : reqs = <<Request(m, doc, n)>>

SpecHandler == InitHandler /\ [][NextHandler]_vars

\* two requests in flight together, each of either method and out of a few
\* bodies: no JSON, six short answers with a role, six absent answers, a number
\* as an answer
ConcurrentDocs ==
  {OtherDoc("malformed"),
   ObjectDoc(Obj([role |-> Str(<<"C", "E", "O">>)]),
             Obj([k \in Keys |-> Str(<<"a", " ", "b">>)]), Absent(NoAnswers)),
   ObjectDoc(Obj(NoRole), Obj(NoAnswers), Absent(NoAnswers)),
   ObjectDoc(Obj(NoRole),
             Obj([k \in Keys |-> IF k = "q2" THEN Num(<<"5">>) ELSE Str(<<"a">>)]),
             Absent(NoAnswers))}

ConcurrentRequests ==
  {Request(m, doc, n) : m \in {"POST", "GET"}, doc \in ConcurrentDocs, n \in {1, MaxChunks}}

InitConcurrent ==
  /\ profile = NoRole
  /\ answers = NoAnswers
  /\ pc = "idle"
  /\ result = NoResult
  /\ env \in {NoEnv, [OPENAI_API_KEY |-> Str(<<"s", "k">>)]}
  /\ \E q1 \in ConcurrentRequests, q2 \in ConcurrentRequests : reqs = <<q1, q2>>

SpecConcurrent == InitConcurrent /\ [][NextHandler]_vars

\* one request out of a few bodies: no JSON, answers missing, six absent answers,
\* six empty answers with a role, a number as an answer
LiveDocs ==
  {OtherDoc("malformed"),
   ObjectDoc(Obj(NoRole), Absent(NoAnswers), Absent(NoAnswers)),
   ObjectDoc(Obj(NoRole), Obj(NoAnswers), Absent(NoAnswers)),
   ObjectDoc(Obj([role |-> Str(<<"C", "E", "O">>)]),
             Obj([k \in Keys |-> Str(<<>>)]), Absent(NoAnswers)),
   ObjectDoc(Obj(NoRole),
             Obj([k \in Keys |-> IF k = "q2" THEN Num(<<"5">>) ELSE Str(<<"a">>)]),
             Absent(NoAnswers))}

InitHandlerLive ==
  /\ profile = NoRole
  /\ answers = NoAnswers
  /\ pc = "idle"
  /\ result = NoResult
  /\ env \in EnvPool
  /\ \E m \in Methods, doc \in LiveDocs, n \in 1..MaxChunks : reqs = <<Request(m, doc, n)>>

\* the event loop runs the handler and the listeners of the events that have
\* arrived, the reply of the service included when there is one; the choice of
\* the service between a reply and silence carries no fairness
SpecHandlerLive ==
  /\ InitHandlerLive
  /\ [][NextHandler]_vars
  /\ WF_vars(\E r \in DOMAIN reqs : Handle(r))
  /\ WF_vars(\E r \in DOMAIN reqs : OnData(r))
  /\ WF_vars(\E r \in DOMAIN reqs : OnEnd(r))
  /\ WF_vars(\E r \in DOMAIN reqs : OnReply(r))

(***************************************************************************)
(* Properties of the fallback scorer                                       *)
(***************************************************************************)
Returned == pc = "returned"

\* the answer key of the i-th dimension
QKey == <<"q1", "q2", "q3", "q4", "q5", "q6">>

\* the text of the i-th answer, an absent answer being the empty text
AnswerText(i) == IF answers[QKey[i]].t = "string" THEN answers[QKey[i]].s ELSE <<>>

\* whitespace-separated words: the maximal runs of non-whitespace characters
WordsIn(s) ==
  Cardinality({i \in 1..Len(s) : s[i] \notin Whitespace /\ (i = 1 \/ s[i - 1] \in Whitespace)})

LevelByWords(n) ==
  IF n < 15 THEN "Emerging"
  ELSE IF n < 40 THEN "Basic"
  ELSE IF n < 80 THEN "Advanced"
  ELSE "Leading"

ScoreOfLevel(l) == CHOOSE k \in 1..5 : Levels[k] = l

\* the normalised form is empty or is an entry of the unknown-phrase list
ExactUnknown(s) ==
  LET nf == normalise(s)
  IN nf = <<>> \/ \E k \in 1..Len(unknownPatterns) : unknownPatterns[k] = nf

StartsWith(s, p) == Len(s) >= Len(p) /\ SubSeq(s, 1, Len(p)) = p

LiteralUnknownPhrases == {
  <<"i"," ","d","o","n","'","t"," ","k","n","o","w">>,
  <<"n","/","a">>,
  <<"u","n","k","n","o","w","n">>,
  <<"n","o","n","e">> }

\* C1: an empty answer and each literal unknown phrase ("i don't know", "n/a",
\* "unknown", "none", in any letter case) is classified None with score 1, in
\* each of the six dimensions.
C1_LiteralUnknownIsNone ==
  Returned =>
    \A i \in 1..6 :
      (AnswerText(i) = <<>> \/ toLowerCase(AnswerText(i)) \in LiteralUnknownPhrases)
        => result.dimensions[i].level = "None" /\ result.dimensions[i].score = 1

\* C2: an answer that is not detected as unknown gets its level from its number n
\* of whitespace-separated words alone: n < 15 Emerging, 15 <= n < 40 Basic,
\* 40 <= n < 80 Advanced, n >= 80 Leading, and the score that goes with the level.
C2_WordCountBands ==
  Returned =>
    \A i \in 1..6 :
      ~ExactUnknown(AnswerText(i)) =>
        /\ result.dimensions[i].level = LevelByWords(WordsIn(AnswerText(i)))
        /\ result.dimensions[i].score = ScoreOfLevel(result.dimensions[i].level)

HasWords(n, level) ==
  \E i \in 1..6 : WordsIn(AnswerText(i)) = n /\ result.dimensions[i].level = level

C2_Witness ==
  /\ Returned
  /\ HasWords(14, "Emerging") /\ HasWords(15, "Basic") /\ HasWords(39, "Basic")
  /\ HasWords(40, "Advanced") /\ HasWords(79, "Advanced") /\ HasWords(80, "Leading")

ContainsUnknownPhrase(s) ==
  LET nf == normalise(s)
  IN \E k \in 1..Len(unknownPatterns) : stringIncludes(nf, unknownPatterns[k])

\* C3: an answer is classified None if and only if its normalised form is empty or
\* equals an entry of the unknown-phrase list; an answer that only contains an
\* unknown phrase inside a longer text is scored by its word count.
C3_ExactMatchOnly ==
  Returned =>
    \A i \in 1..6 :
      /\ (result.dimensions[i].level = "None") <=> ExactUnknown(AnswerText(i))
      /\ (ContainsUnknownPhrase(AnswerText(i)) /\ ~ExactUnknown(AnswerText(i)))
            => result.dimensions[i].level = LevelByWords(WordsIn(AnswerText(i)))

NoneOfTheAbove ==
  <<"n","o","n","e"," ","o","f"," ","t","h","e"," ","a","b","o","v","e"," ","a","p","p","l","y"," ","t","o"," ","u","s">>

C3_Witness ==
  /\ Returned
  /\ \E i \in 1..6 :
       /\ AnswerText(i) = NoneOfTheAbove
       /\ ContainsUnknownPhrase(AnswerText(i))
       /\ result.dimensions[i].level = "Emerging"

NotKnowingSentence ==
  <<"I"," ","r","e","a","l","l","y"," ","d","o","n","'","t"," ","h","a","v","e"," ","t","h","i","s"," ","i","n","f","o","r","m","a","t","i","o","n">>

\* C4 as stated: "I really don't have this information" is classified None by the
\* unknown detection and is not scored by its length.
C4_NotKnowingSentenceIsNone ==
  Returned =>
    \A i \in 1..6 :
      AnswerText(i) = NotKnowingSentence
        => result.dimensions[i].level = "None" /\ result.dimensions[i].score = 1

\* C4 (amended): an answer that states not-knowing in a longer sentence, such as
\* "I really don't have this information" alone or followed by more words, is not
\* detected as unknown and is scored by its word count; the sentence alone has
\* 6 words and is Emerging with score 2.
C4_NotKnowingSentenceByLength ==
  Returned =>
    \A i \in 1..6 :
      StartsWith(AnswerText(i), NotKnowingSentence) =>
        /\ result.dimensions[i].level = LevelByWords(WordsIn(AnswerText(i)))
        /\ AnswerText(i) = NotKnowingSentence
              => result.dimensions[i].level = "Emerging" /\ result.dimensions[i].score = 2

C4_Witness ==
  /\ Returned
  /\ \E i \in 1..6 :
       /\ AnswerText(i) = NotKnowingSentence
       /\ result.dimensions[i].level = "Emerging"

\* the six dimensions in their fixed order
DimensionNames ==
  <<"Why change", "Why now", "Why your company", "Emotion-Logic", "Buyer-as-hero", "Clarity">>

\* C5: the narrative lookup is total over the 6 dimensions x 5 levels: every pair
\* has a non-empty rationale and a non-empty advancement text, no two dimensions
\* have the same rationale for one level, and every dimension result of a report
\* carries the texts of its own dimension and level.
C5_NarrativeTotal ==
  /\ \A i \in 1..6 : \A k \in 1..5 :
       /\ messageOf(categories[i].name, Levels[k]).why # ""
       /\ messageOf(categories[i].name, Levels[k]).how # ""
       /\ \A j \in 1..6 :
            j # i => messageOf(categories[j].name, Levels[k]).why
                       # messageOf(categories[i].name, Levels[k]).why
  /\ Returned =>
       \A i \in 1..6 :
         /\ result.dimensions[i].why # "" /\ result.dimensions[i].how # ""
         /\ result.dimensions[i].why = messageTemplates[DimensionNames[i]][result.dimensions[i].level].why
         /\ result.dimensions[i].how = messageTemplates[DimensionNames[i]][result.dimensions[i].level].how
         /\ \A j \in 1..6 :
              (j # i /\ result.dimensions[j].level = result.dimensions[i].level)
                => result.dimensions[j].why # result.dimensions[i].why

C5_Witness ==
  /\ Returned
  /\ \A i \in 1..6 : result.dimensions[i].level = "Basic" /\ result.dimensions[i].why # ""
  /\ Cardinality({result.dimensions[i].why : i \in 1..6}) = 6

\* the level the text of the i-th answer gives by itself
LevelOfText(s) == IF ExactUnknown(s) THEN "None" ELSE LevelByWords(WordsIn(s))

\* C6: a report has exactly six dimension results, one per dimension in the fixed
\* order Why change, Why now, Why your company, Emotion-Logic, Buyer-as-hero,
\* Clarity, and the i-th result is computed from the answer under key q(i) and
\* from no other answer.
C6_SixDimensionsInOrder ==
  Returned =>
    /\ Len(result.dimensions) = 6
    /\ \A i \in 1..6 :
         /\ result.dimensions[i].name = DimensionNames[i]
         /\ result.dimensions[i].level = LevelOfText(AnswerText(i))
         /\ result.dimensions[i]
              = dimensionOf(categories[i],
                            [k \in Keys |-> IF k = QKey[i] THEN answers[k] ELSE Undefined])

C6_Witness ==
  /\ Returned
  /\ Len(result.dimensions) = 6
  /\ \A i \in 1..6 : WordsIn(AnswerText(i)) = BoundaryCounts[i]
  /\ [i \in 1..6 |-> result.dimensions[i].level]
       = <<"Emerging", "Basic", "Basic", "Advanced", "Advanced", "Leading">>

ScoreSum ==
  result.dimensions[1].score + result.dimensions[2].score + result.dimensions[3].score
    + result.dimensions[4].score + result.dimensions[5].score + result.dimensions[6].score

\* the reported average, in tenths
AverageTenths == 10 * digitValue(result.averageScore[1]) + digitValue(result.averageScore[3])

AllScores(v) == \A i \in 1..6 : result.dimensions[i].score = v

\* C7: the reported average is the mean of the six scores rounded to one decimal
\* (the tenth nearest to sum/6), for every combination of scores; six scores of 1
\* give 1.0 and Band None, six scores of 5 give 5.0 and Band Leading.
C7_AverageRounded ==
  Returned =>
    /\ Len(result.averageScore) = 3 /\ result.averageScore[2] = "."
    /\ 10 * ScoreSum - 6 * AverageTenths <= 3
    /\ 6 * AverageTenths - 10 * ScoreSum <= 3
    /\ AllScores(1) => result.averageScore = <<"1", ".", "0">> /\ result.band = "None"
    /\ AllScores(5) => result.averageScore = <<"5", ".", "0">> /\ result.band = "Leading"

C7_Witness ==
  /\ Returned
  /\ ScoreSum = 10
  /\ result.averageScore = <<"1", ".", "7">>

\* the Band of a report whose six scores add up to t
BandOfSum(t) == bandOf(parseFloat(toFixed1(t, 6)))

\* C8: Band is a total, non-decreasing function of the average: every report has
\* exactly one of the five labels, fixed by the sum of its scores; it is not lower
\* than the Band of any smaller sum, so not lower than the Band of a report whose
\* scores are all less or equal, and raising a score never lowers it.
C8_BandMonotone ==
  Returned =>
    /\ Cardinality({k \in 1..5 : Levels[k] = result.band}) = 1
    /\ result.band = BandOfSum(ScoreSum)
    /\ \A t \in 6..30 :
         t <= ScoreSum => ScoreOfLevel(BandOfSum(t)) <= ScoreOfLevel(result.band)
    /\ \A i \in 1..6 : \A v \in 1..5 :
         v >= result.dimensions[i].score
           => ScoreOfLevel(BandOfSum(ScoreSum - result.dimensions[i].score + v))
                >= ScoreOfLevel(result.band)

C8_Witness ==
  /\ Returned
  /\ ScoreSum = 23 /\ result.band = "Basic"
  /\ \E i \in 1..6 :
       /\ result.dimensions[i].score = 3
       /\ BandOfSum(ScoreSum - result.dimensions[i].score + 4) = "Advanced"

ChiefProductOfficer ==
  <<"C","h","i","e","f"," ","P","r","o","d","u","c","t"," ","O","f","f","i","c","e","r">>

\* C9: the band-keyed texts of a report are those of its own Band: the executive
\* summary is the Band's paragraph and nextActions is the Band's list, not another
\* Band's, with 3 to 5 entries.
C9_BandKeyedTexts ==
  Returned =>
    /\ result.executiveSummary = summaryMap[result.band]
    /\ result.coaching.nextActions = actionsMap[result.band]
    /\ \A k \in 1..5 :
         Levels[k] # result.band =>
           /\ result.executiveSummary # summaryMap[Levels[k]]
           /\ result.coaching.nextActions # actionsMap[Levels[k]]
    /\ Len(result.coaching.nextActions) \in 3..5

C9_Witness ==
  /\ Returned
  /\ profile.role = Str(ChiefProductOfficer)
  /\ result.band = "Leading"
  /\ result.coaching.nextActions = actionsMap["Leading"]

\* the lower-cased role, an absent role being the empty text
RoleLower == toLowerCase(IF profile.role.t = "string" THEN profile.role.s ELSE <<>>)

\* the branch of the "cpo" / "chief product" patterns and the one of "product"
CpoBranch == CHOOSE k \in 1..Len(roleBranches) : roleBranches[k].patterns[1] = <<"c","p","o">>

ProductBranch ==
  CHOOSE k \in 1..Len(roleBranches) : roleBranches[k].patterns[1] = <<"p","r","o","d","u","c","t">>

\* C10: the coaching paragraph is that of the first pattern, in list order, that
\* occurs in the lower-cased role, and the generic paragraph when none occurs; the
\* role "Chief Product Officer" gets the paragraph of "cpo" / "chief product", not
\* the one of "product".
C10_FirstMatchWins ==
  Returned =>
    /\ \A k \in 1..Len(roleBranches) :
         (branchMatches(RoleLower, k) /\ \A j \in 1..(k - 1) : ~branchMatches(RoleLower, j))
           => result.coaching.coachingText = roleBranches[k].text
    /\ (\A k \in 1..Len(roleBranches) : ~branchMatches(RoleLower, k))
         => result.coaching.coachingText = genericCoachingText
    /\ profile.role = Str(ChiefProductOfficer) =>
         /\ roleBranches[CpoBranch].patterns[2] = <<"c","h","i","e","f"," ","p","r","o","d","u","c","t">>
         /\ result.coaching.coachingText = roleBranches[CpoBranch].text
         /\ result.coaching.coachingText # roleBranches[ProductBranch].text

C10_Witness ==
  /\ Returned
  /\ profile.role = Str(ChiefProductOfficer)
  /\ branchMatches(RoleLower, CpoBranch) /\ branchMatches(RoleLower, ProductBranch)
  /\ result.coaching.coachingText = roleBranches[CpoBranch].text

(***************************************************************************)
(* Properties of the handler                                               *)
(***************************************************************************)
Served == DOMAIN reqs

Done(r) == reqs[r].pc = "done"

ReportFields == {"profile", "averageScore", "band", "executiveSummary", "dimensions", "coaching"}

\* the body is the JSON text of a complete report of the fallback scorer
HoldsFallbackReport(body) ==
  /\ body.t = "json"
  /\ DOMAIN body.v = ReportFields
  /\ Len(body.v.dimensions) = Len(categories)

\* the body passes the handler's validation: it parses, and profile and answers
\* are both truthy
PassedValidationBody(r) ==
  /\ ~parseThrows(reqs[r].doc)
  /\ truthyMember(reqs[r].doc.profile) /\ truthyMember(reqs[r].doc.answers)

PassedValidation(r) == reqs[r].method = "POST" /\ PassedValidationBody(r)

\* C11: once the fallback scorer is entered it does not fail: for every profile
\* and answers that passed the handler's validation, the invocation returns a
\* complete report, which the handler sends with status 200; no exception of the
\* scorer turns the response into an error.
C11_ScorerNeverFails ==
  \A r \in Served :
    (Done(r) /\ PassedValidation(r) /\ reqs[r].scorer > 0)
      => /\ reqs[r].response.statusCode = 200
         /\ HoldsFallbackReport(reqs[r].response.body)

NoCredential == ~Truthy(env.OPENAI_API_KEY)

\* a POST of profile {} and six answers, each the empty string or absent
EmptyAssessment(r) ==
  /\ reqs[r].method = "POST"
  /\ reqs[r].doc.kind = "object"
  /\ reqs[r].doc.profile = Obj(NoRole)
  /\ reqs[r].doc.answers.t = "object"
  /\ \A k \in Keys : reqs[r].doc.answers.o[k] \in {Undefined, Str(<<>>)}

AllEmptyStrings == [k \in Keys |-> Str(<<>>)]

\* C12: with no credential, a POST of profile {} and six answers that are each
\* the empty string or absent is answered 200 with a report of band None, the
\* lowest score (1) in all six dimensions and a non-empty nextActions list; the
\* report is the one of six empty strings, so an absent key counts as the empty
\* string under that key.
C12_EmptyAssessment ==
  \A r \in Served :
    (Done(r) /\ NoCredential /\ EmptyAssessment(r))
      => /\ reqs[r].response.statusCode = 200
         /\ HoldsFallbackReport(reqs[r].response.body)
         /\ reqs[r].response.body.v.band = "None"
         /\ \A i \in 1..Len(categories) :
              /\ reqs[r].response.body.v.dimensions[i].score = 1
              /\ reqs[r].response.body.v.dimensions[i].level = "None"
         /\ Len(reqs[r].response.body.v.coaching.nextActions) > 0
         /\ reqs[r].response.body.v = fallbackEvaluate(NoRole, AllEmptyStrings)

C12_Witness ==
  \E r \in Served :
    /\ Done(r) /\ NoCredential /\ EmptyAssessment(r)
    /\ reqs[r].doc.answers.o["q1"] = Undefined
    /\ reqs[r].doc.answers.o["q6"] = Str(<<>>)
    /\ reqs[r].response.statusCode = 200
    /\ reqs[r].response.body.v.band = "None"

\* the body is the JSON text of an object with an error member
HoldsError(body) == body.t = "json" /\ DOMAIN body.v = {"error"}

\* C14: a request of any method other than POST is answered 405 with the header
\* Allow: POST and a JSON error body, and for such a request neither the
\* fallback scorer nor the outbound call ever runs.
C14_MethodNotAllowed ==
  \A r \in Served :
    reqs[r].method # "POST"
      => /\ reqs[r].scorer = 0 /\ reqs[r].calls = 0
         /\ reqs[r].pc \in {"arrived", "done"}
         /\ Done(r) =>
              /\ reqs[r].response.statusCode = 405
              /\ <<"Allow", "POST">> \in reqs[r].response.headers
              /\ HoldsError(reqs[r].response.body)
              /\ reqs[r].ended = 1

C14_Witness ==
  \E r \in Served :
    /\ reqs[r].method = "GET" /\ Done(r)
    /\ reqs[r].doc.kind = "object" /\ PassedValidationBody(r)
    /\ reqs[r].response.statusCode = 405

\* the body is a JSON text
IsJson(doc) == doc.kind \in {"null", "number", "object"}

\* C15: a POST whose JSON body lacks profile or lacks answers is answered 400
\* with a JSON error body; no report is produced for it (the scorer does not run,
\* no outbound call is made) and no default takes the place of the missing member.
C15_MissingMemberIs400 ==
  \A r \in Served :
    (Done(r) /\ reqs[r].method = "POST" /\ IsJson(reqs[r].doc)
       /\ (reqs[r].doc.profile.t = "undefined" \/ reqs[r].doc.answers.t = "undefined"))
      => /\ reqs[r].response.statusCode = 400
         /\ HoldsError(reqs[r].response.body)
         /\ reqs[r].scorer = 0 /\ reqs[r].calls = 0

\* C16 as stated: a POST whose body fails to parse as JSON is answered 500 with
\* a JSON error body.  The empty body is no JSON text either.
C16_UnparsableBodyIs500 ==
  \A r \in Served :
    (Done(r) /\ reqs[r].method = "POST" /\ ~IsJson(reqs[r].doc))
      => /\ reqs[r].response.statusCode = 500
         /\ HoldsError(reqs[r].response.body)

\* C16, amended: a POST whose body is not empty and fails to parse as JSON is
\* answered 500 with a JSON error body, without the scorer or the outbound call
\* running; a POST with an empty body is read as {} and answered 400 with a JSON
\* error body.
C16_NonEmptyUnparsableBodyIs500 ==
  \A r \in Served :
    (Done(r) /\ reqs[r].method = "POST")
      => /\ reqs[r].doc.kind = "malformed"
              => /\ reqs[r].response.statusCode = 500
                 /\ HoldsError(reqs[r].response.body)
                 /\ reqs[r].scorer = 0 /\ reqs[r].calls = 0
         /\ reqs[r].doc.kind = "empty"
              => /\ reqs[r].response.statusCode = 400
                 /\ HoldsError(reqs[r].response.body)

C16_Witness ==
  \E r \in Served :
    /\ Done(r) /\ reqs[r].method = "POST"
    /\ reqs[r].doc.kind = "malformed"
    /\ reqs[r].got = MaxChunks
    /\ reqs[r].response.statusCode = 500

\* the report of the fallback scorer for the request's own profile and answers
OwnReport(r) == fallbackEvaluate(reqs[r].doc.profile.o, reqs[r].doc.answers.o)

ScorerThrows(r) == fallbackThrows(reqs[r].doc.profile.o, reqs[r].doc.answers.o)

\* C17: with no credential configured, a POST that passes validation is
\* answered 200 with the fallback scorer's report for that request's profile and
\* answers, without an error and without an outbound call.
C17_NoCredentialFallsBack ==
  \A r \in Served :
    (Done(r) /\ PassedValidation(r) /\ NoCredential)
      => /\ reqs[r].calls = 0
         /\ reqs[r].response.statusCode = 200
         /\ reqs[r].response.body = JsonBody(OwnReport(r))

\* the outbound call failed: a request error, a response that is not a success,
\* or a response without model output that parses as JSON
CallFailed(reply) ==
  \/ reply.event = "error"
  \/ reply.status \notin 200..299
  \/ reply.body # "object"
  \/ reply.content # "report"

\* C18: every failure of the outbound call (request error, non-success response,
\* model output missing or not parsable as JSON) is recovered: the response is
\* 200 with the fallback scorer's report, never an error response.  Stated for
\* the requests on which the scorer itself does not raise.
C18_CallFailureFallsBack ==
  \A r \in Served :
    (Done(r) /\ reqs[r].calls > 0 /\ CallFailed(reqs[r].reply) /\ ~ScorerThrows(r))
      => /\ reqs[r].response.statusCode = 200
         /\ reqs[r].response.body = JsonBody(OwnReport(r))

\* C19: every response of status 200 carries Content-Type: application/json and
\* a body that is valid JSON holding a report, on every path: no credential,
\* outbound call succeeded, outbound call failed.
C19_OkIsJsonReport ==
  \A r \in Served :
    (Done(r) /\ reqs[r].response.statusCode = 200)
      => /\ <<"Content-Type", "application/json">> \in reqs[r].response.headers
         /\ reqs[r].response.body.t = "json"
         /\ \/ HoldsFallbackReport(reqs[r].response.body)
            \/ reqs[r].response.body.v = ModelReport

\* no character of the answer is a letter a-z or a digit once lower-cased
NoLetterOrDigit(s) ==
  \A j \in 1..Len(s) : toLowerCaseChar(s[j]) \notin SeqRange(LowerCase) \cup SeqRange(DigitChars)

\* C20: unknown detection takes precedence over length: an answer without any
\* character of [a-z0-9] after lower-casing (only punctuation, only a non-Latin
\* script) has an empty normalised form and is None with the lowest score,
\* whatever its word count, 80 words and more included.
C20_UnknownBeforeLength ==
  Returned =>
    \A i \in 1..Len(categories) :
      (answers[QKey[i]].t = "string" /\ NoLetterOrDigit(AnswerText(i)))
        => /\ result.dimensions[i].level = "None"
           /\ result.dimensions[i].score = 1

C20_Witness ==
  /\ Returned
  /\ \E i \in 1..Len(categories) :
       /\ NoLetterOrDigit(AnswerText(i))
       /\ WordsIn(AnswerText(i)) >= 80
       /\ "u65e5" \in SeqRange(AnswerText(i))
       /\ result.dimensions[i].level = "None"

\* C21: in every dimension result the score is an integer of the one scale 1..5
\* and the level is fixed by the score: 1 None, 2 Emerging, 3 Basic, 4 Advanced,
\* 5 Leading; no result pairs a score with another level.
C21_LevelFixedByScore ==
  Returned =>
    \A i \in 1..Len(result.dimensions) :
      /\ result.dimensions[i].score \in 1..5
      /\ result.dimensions[i].level = Levels[result.dimensions[i].score]
      /\ \A k \in 1..5 :
           result.dimensions[i].level = Levels[k] => result.dimensions[i].score = k

C21_Witness ==
  /\ Returned
  /\ \A k \in 1..5 :
       \E i \in 1..Len(result.dimensions) :
         result.dimensions[i].score = k /\ result.dimensions[i].level = Levels[k]

\* C22: if the outbound call never completes (no 'end' of the response and no
\* 'error' of the request), the handler still eventually answers the request,
\* with the fallback scorer's report: once the call is started, a 200 response
\* follows.
C22_CallStartedLeadsToAnswer ==
  [](reqs[1].calls > 0 => <>(reqs[1].pc = "done" /\ reqs[1].ended > 0))

\* the request r as the handler ends it when it is the only request: the
\* handler called, every chunk delivered, 'end', and the service's reply to r
\* when r made the outbound call
HandledAlone(r) ==
  LET fresh == Request(reqs[r].method, reqs[r].doc, reqs[r].nchunks)
      read == [fresh EXCEPT !.pc = "reading", !.got = reqs[r].nchunks]
      ended == onEnd(read, env.OPENAI_API_KEY)
  IN  IF fresh.method # "POST"
        THEN respond(fresh, 405, AllowHeader, ErrorBody("Method not allowed"))
      ELSE IF ended.pc = "calling"
        THEN onSettled([ended EXCEPT !.reply = reqs[r].reply], callOpenAI(reqs[r].reply))
      ELSE ended

\* C23: requests are independent: with several requests in flight, their chunks
\* and the completions of their outbound calls interleaved in any order, the
\* body a request accumulates holds its own chunks only, and each request ends
\* with the response (and the scorer runs and outbound calls) it gets when it is
\* handled alone.
C23_RequestsIndependent ==
  \A r \in Served :
    /\ reqs[r].got <= reqs[r].nchunks
    /\ Done(r) => reqs[r] = HandledAlone(r)

\* both requests answered after being in flight together on the outbound call,
\* one by the model's report and one by the fallback report
C23_Witness ==
  /\ Len(reqs) = 2
  /\ Done(1) /\ Done(2)
  /\ reqs[1].calls = 1 /\ reqs[2].calls = 1
  /\ reqs[1].reply.content = "report" /\ reqs[2].reply.event = "error"
  /\ reqs[1].nchunks = MaxChunks /\ reqs[2].nchunks = 1
  /\ reqs[1].doc # reqs[2].doc
  /\ reqs[1].response.body = JsonBody(ModelReport)
  /\ HoldsFallbackReport(reqs[2].response.body)

DirectorBranch ==
  CHOOSE k \in 1..Len(roleBranches) :
    roleBranches[k].patterns[1] = <<"d","i","r","e","c","t","o","r">>

\* C24: every coaching paragraph of the role list can be selected; in particular
\* the role "Director", which names no executive, product, marketing or sales
\* function, gets the director paragraph.
C24_DirectorParagraphSelected ==
  (Returned /\ profile.role = Str(<<"D","i","r","e","c","t","o","r">>))
    => result.coaching.coachingText = roleBranches[DirectorBranch].text

\* the path a finished request took through the handler
PathOf(r) ==
  IF reqs[r].response.statusCode = 405 THEN "405"
  ELSE IF reqs[r].response.statusCode = 400 THEN "400"
  ELSE IF reqs[r].response.statusCode = 500 THEN "internal error"
  ELSE IF reqs[r].calls = 0 THEN "no credential"
  ELSE IF reqs[r].scorer = 0 THEN "external success"
  ELSE "external failure"

\* C25: on every path through the handler (405, 400, no credential, external
\* success, external failure, internal error) a request gets at most one
\* response and the fallback scorer runs at most once for it; a finished request
\* got exactly one response.
C25_AtMostOneResponse ==
  \A r \in Served :
    /\ reqs[r].ended <= 1
    /\ reqs[r].scorer <= 1
    /\ reqs[r].calls <= 1
    /\ Done(r) <=> reqs[r].ended = 1

\* a request answered by the fallback report after its outbound call failed
C25_Witness ==
  \E r \in Served :
    /\ Done(r)
    /\ PathOf(r) = "external failure"
    /\ reqs[r].reply.content = "text"
    /\ reqs[r].ended = 1 /\ reqs[r].scorer = 1 /\ reqs[r].calls = 1

\* C26: the outbound call is started only after the method check and the
\* validation of profile and answers have passed, with the whole body read, and
\* only when a credential is configured; a request answered 405, 400, or 500 for
\* a body that does not parse never causes an outbound call.
C26_CallOnlyAfterChecks ==
  \A r \in Served :
    /\ reqs[r].calls > 0
         => /\ reqs[r].method = "POST"
            /\ reqs[r].got = reqs[r].nchunks
            /\ reqs[r].doc.kind = "object"
            /\ reqs[r].doc.profile.t = "object" /\ reqs[r].doc.answers.t = "object"
            /\ env.OPENAI_API_KEY.t = "string" /\ env.OPENAI_API_KEY.s # <<>>
    /\ (Done(r) /\ reqs[r].response.statusCode \in {405, 400}) => reqs[r].calls = 0
    /\ (Done(r) /\ reqs[r].doc.kind \in {"malformed", "null"}) => reqs[r].calls = 0

C26_Witness ==
  \E r \in Served :
    /\ reqs[r].pc = "calling" /\ reqs[r].calls = 1
    /\ reqs[r].ended = 0
    /\ reqs[r].doc.attachments.t = "object"
    /\ PassedValidation(r) /\ ~NoCredential

\* C27: with the scale 1..5 and the breakpoints 2.0 / 3.0 / 4.0 / 5.0, the band
\* is Leading if and only if all six dimensions score 5, and the band is None
\* only if at least one dimension scores 1.
C27_LeadingIffAllFive ==
  Returned =>
    /\ result.band = "Leading" <=> AllScores(5)
    /\ result.band = "None" => \E i \in 1..6 : result.dimensions[i].score = 1

C27_Witness ==
  /\ Returned
  /\ AllScores(5)
  /\ ScoreSum = 30
  /\ result.band = "Leading"

\* the level of lowest and of highest score among the six dimension results
LowestScore == SetMin({result.dimensions[i].score : i \in 1..6})

HighestScore == CHOOSE s \in 1..5 :
                  /\ \E i \in 1..6 : result.dimensions[i].score = s
                  /\ \A i \in 1..6 : result.dimensions[i].score <= s

BandRank == CHOOSE k \in 1..5 : Levels[k] = result.band

\* C28: the band of a report is never below the lowest and never above the
\* highest level among its six dimension results; when all six dimensions have
\* the same level, the band is that level.
C28_BandWithinLevels ==
  Returned =>
    /\ result.band \in SeqRange(Levels)
    /\ LowestScore <= BandRank /\ BandRank <= HighestScore
    /\ \A k \in 1..5 :
         (\A i \in 1..6 : result.dimensions[i].level = Levels[k]) => result.band = Levels[k]

C28_Witness ==
  /\ Returned
  /\ LowestScore = 1 /\ HighestScore = 5
  /\ result.band = "Basic"

\* the band of the exact mean sum/6: sum/6 < b is sum < 6 * b
ExactBand(sum) ==
  IF sum < 6 * 2 THEN "None"
  ELSE IF sum < 6 * 3 THEN "Emerging"
  ELSE IF sum < 6 * 4 THEN "Basic"
  ELSE IF sum < 6 * 5 THEN "Advanced"
  ELSE "Leading"

\* C29: rounding the average to one decimal before banding never changes the
\* band: for every combination of six scores the band of the report, computed
\* from the rounded average, is the band of the exact mean sum/6.
C29_RoundingKeepsBand ==
  Returned => result.band = ExactBand(ScoreSum)

\* a mean that rounds upwards towards a breakpoint: 11/6 = 1.83.. is reported 1.8
C29_Witness ==
  /\ Returned
  /\ ScoreSum = 11
  /\ AverageTenths = 18
  /\ 10 * ScoreSum > 6 * AverageTenths
  /\ result.band = "None"

\* the q6 answer, trimmed; empty when q6 is absent
TrimmedQ6 == trim(AnswerText(6))

\* C30: coaching.finalValue is never the empty string: it is the trimmed q6
\* answer when q6 has content, and the fixed placeholder sentence otherwise,
\* that is when q6 is absent, empty or only whitespace.
C30_FinalValueNeverEmpty ==
  Returned =>
    /\ result.coaching.finalValue # <<>>
    /\ TrimmedQ6 # <<>> => result.coaching.finalValue = TrimmedQ6
    /\ TrimmedQ6 = <<>> => result.coaching.finalValue = finalValuePlaceholder

====
